---- MODULE Spec2Model ----
(***************************************************************************)
(* Model of lambda/src/client.rs: the transport Client (Client::call), the *)
(* EventClient capability and the EventStream driver (poll_next).          *)
(*                                                                         *)
(* Spec      : one EventStream driven by a consumer, over a substitute     *)
(*             capability whose futures resolve at arbitrary times.        *)
(* SpecCall  : one run of Client::call on an arbitrary request.            *)
(***************************************************************************)
EXTENDS Integers, Sequences, FiniteSets, TLC

\* ------------------------------------------------------------------ bounds
\* Calls the capability accepts before the model stops issuing further ones.
MaxCalls == 4
\* Iterations of the `loop` in poll_next the model is prepared to unroll.
LoopFuel == 2
\* Body chunks a response delivers before the model stops producing more.
MaxChunks == 3
\* Value at which the count of poll_next calls stops growing.
MaxPulls == 5

\* ------------------------------------------------------------- data model
\* Option::None for the slot `current`; Some(k) is the exchange number k >= 1.
None == 0

\* An absent component of a Uri (no scheme / no authority / no path-and-query).
Absent == "-"

\* Result<Response<Bytes>, Err>: the success variant.
Ok(status, headers, body) ==
    [tag |-> "Ok", status |-> status, headers |-> headers, body |-> body, err |-> ""]

\* Result<Response<Bytes>, Err>: the error variant, an opaque description.
Err(e) ==
    [tag |-> "Err", status |-> 0, headers |-> "", body |-> <<>>, err |-> e]

\* Placeholder for "the future has produced no output yet".
NoResult ==
    [tag |-> "NoResult", status |-> 0, headers |-> "", body |-> <<>>, err |-> ""]

\* Outputs a capability future may resolve to (type Fut::Output).
Outcomes ==
    { Ok(200, "h", <<1>>), Ok(200, "h", <<2>>), Ok(500, "h", <<>>),
      Err("connection reset") }

\* What a freshly returned capability future is: not yet resolved, or
\* already resolvable at its first poll.
FutChoices == {NoResult} \cup Outcomes

\* ------------------------------------------------------------------ state
VARIABLES
    current,     \* EventStream.current: None or the number of the held exchange
    exchanges,   \* every future the capability returned, in call order
    yielded,     \* items handed to the consumer: poll_next's Ready(Some(_)) returns
    ret,         \* what the last poll_next call returned
    pulls,       \* poll_next calls made so far (counted up to MaxPulls)
    iters,       \* loop iterations of the last poll_next call
    polls,       \* polls of the held future made by the last poll_next call
    issued,      \* capability calls made by the last poll_next call
    repolled,    \* a future was polled again after it returned Ready
    discarded,   \* the stream was dropped by its consumer
    c_pc,        \* Client::call: where the call / its future stands
    c_client,    \* Client::call: self.scheme, self.authority
    c_req,       \* Client::call: the caller's request
    c_sent,      \* Client::call: the request handed to hyper
    c_parts,     \* Client::call: status and headers of the response
    c_chunks,    \* Client::call: what body.next() has returned so far, in order
    c_buf,       \* Client::call: the accumulator `buf`
    c_result     \* Client::call: the output of the returned future

streamVars == <<current, exchanges, yielded, ret, pulls, iters, polls, issued, repolled, discarded>>
callVars == <<c_pc, c_client, c_req, c_sent, c_parts, c_chunks, c_buf, c_result>>
vars == <<streamVars, callVars>>

\* The call-counter substitute: number of EventClient::call invocations.
calls_issued == Len(exchanges)

\* Number of Ready(Some(_)) returns of poll_next.
items_yielded == Len(yielded)

\* ------------------------------------------------------- EventStream::new
\* Variant of new: the constructor already asks the capability for an event.
new_Eager ==
    /\ current = 1
    /\ exchanges = <<[req |-> [method |-> "GET",
                               uri |-> [scheme |-> Absent, authority |-> Absent,
                                        pq |-> "/runtime/invocation/next"],
                               headers |-> "", body |-> <<>>],
                      st |-> "pending", res |-> NoResult, waker |-> FALSE]>>
    /\ yielded = <<>>
    /\ ret = "NotCalled"
    /\ pulls = 0
    /\ iters = 0
    /\ polls = 0
    /\ issued = 0
    /\ repolled = FALSE
    /\ discarded = FALSE

\* EventStream::new: the slot is empty and nothing has been asked of the client.
new ==
    /\ current = None
    /\ exchanges = <<>>
    /\ yielded = <<>>
    /\ ret = "NotCalled"
    /\ pulls = 0
    /\ iters = 0
    /\ polls = 0
    /\ issued = 0
    /\ repolled = FALSE
    /\ discarded = FALSE

\* ------------------------------------------------ the capability substitute
\* The request next_event builds: GET /runtime/invocation/next, empty body.
NextEventRequest ==
    [method |-> "GET",
     uri |-> [scheme |-> Absent, authority |-> Absent, pq |-> "/runtime/invocation/next"],
     headers |-> "",
     body |-> <<>>]

\* EventClient::call on the substitute: it records the request and returns a
\* future f, which is either unresolved or resolvable at its first poll.
call(s, req, f) ==
    [s EXCEPT !.exchanges =
        Append(@, [req |-> req,
                   st |-> IF f = NoResult THEN "pending" ELSE "ready",
                   res |-> f,
                   waker |-> FALSE]),
              !.issued = @ + 1]

\* Variant of next_event: the request carries the body of the latest outcome.
next_event_Stateful(s, f) ==
    call(s,
         [NextEventRequest EXCEPT !.body =
             IF Len(s.exchanges) > 0
             THEN s.exchanges[Len(s.exchanges)].res.body
             ELSE <<>>],
         f)

\* EventStream::next_event: one capability call with the fixed request; the
\* future it returns is the last entry of `exchanges`.
next_event(s, f) == call(s, NextEventRequest, f)

\* `self.current = Some(k)`: the assignment drops the future the slot held.
set_current(s, k) ==
    LET old == s.current
        ex  == IF old # None /\ s.exchanges[old].st \in {"pending", "ready"}
               THEN [s.exchanges EXCEPT ![old].st = "dropped"]
               ELSE s.exchanges
    IN [s EXCEPT !.exchanges = ex, !.current = k]

\* Variant of poll: an unresolved future does not keep the caller's waker.
poll_NoWaker(s) ==
    LET e == s.exchanges[s.current] IN
    IF e.st = "ready"
    THEN [s |-> [s EXCEPT !.exchanges[s.current].st = "done",
                          !.exchanges[s.current].waker = TRUE,
                          !.polls = @ + 1],
          res |-> e.res]
    ELSE IF e.st = "pending"
    THEN [s |-> [s EXCEPT !.polls = @ + 1], res |-> NoResult]
    ELSE [s |-> [s EXCEPT !.repolled = TRUE, !.polls = @ + 1],
          res |-> NoResult]

\* `current.as_mut().poll(cx)`: Ready(res) once the exchange has resolved,
\* Pending (with the caller's waker registered) while it has not.  A future
\* that already returned Ready must not be polled again.
poll(s) ==
    LET e == s.exchanges[s.current] IN
    IF e.st = "ready"
    THEN [s |-> [s EXCEPT !.exchanges[s.current].st = "done",
                          !.exchanges[s.current].waker = TRUE,
                          !.polls = @ + 1],
          res |-> e.res]
    ELSE IF e.st = "pending"
    THEN [s |-> [s EXCEPT !.exchanges[s.current].waker = TRUE, !.polls = @ + 1],
          res |-> NoResult]
    ELSE [s |-> [s EXCEPT !.repolled = TRUE, !.polls = @ + 1],
          res |-> NoResult]

\* --------------------------------------------------- EventStream::poll_next
\* Variant of ReadyArm: the outcome is yielded and the slot is emptied; the
\* next exchange is left to the next pull.
ReadyArm_NoPrefetch(s, res, f) ==
    [s EXCEPT !.current = None,
              !.yielded = Append(@, [id |-> s.current, res |-> res]),
              !.ret = "ReadySome"]

\* Variant of ReadyArm: an error outcome is swallowed; the next exchange is
\* stored and the pull reports not ready.
ReadyArm_SkipErr(s, res, f) ==
    LET held == s.current
        s1 == next_event(s, f)
        s2 == set_current(s1, Len(s1.exchanges))
    IN IF res.tag = "Err"
       THEN [s2 EXCEPT !.ret = "Pending"]
       ELSE [s2 EXCEPT !.yielded = Append(@, [id |-> held, res |-> res]),
                       !.ret = "ReadySome"]

\* Variant of ReadyArm: an error outcome ends the sequence (Ready(None)) and
\* nothing is prefetched.
ReadyArm_ErrEnds(s, res, f) ==
    LET held == s.current
        s1 == next_event(s, f)
        s2 == set_current(s1, Len(s1.exchanges))
    IN IF res.tag = "Err"
       THEN [s EXCEPT !.ret = "ReadyNone"]
       ELSE [s2 EXCEPT !.yielded = Append(@, [id |-> held, res |-> res]),
                       !.ret = "ReadySome"]

\* Variant of ReadyArm: the next exchange is issued but not stored; the slot
\* keeps the future that has just returned Ready.
ReadyArm_KeepCompleted(s, res, f) ==
    LET s1 == next_event(s, f)
    IN [s1 EXCEPT !.yielded = Append(@, [id |-> s.current, res |-> res]),
                  !.ret = "ReadySome"]

\* The arm `Poll::Ready(res)`: issue the next exchange, store it, yield res.
ReadyArm(s, res, f) ==
    LET held == s.current
        s1 == next_event(s, f)
        s2 == set_current(s1, Len(s1.exchanges))
    IN [s2 EXCEPT !.yielded = Append(@, [id |-> held, res |-> res]),
                  !.ret = "ReadySome"]

\* Variant of PendingArm: a further exchange is started beside the held one.
PendingArm_Reissue(s) ==
    [next_event(s, NoResult) EXCEPT !.ret = "Pending"]

\* The arm `Poll::Pending => return Poll::Pending`.
PendingArm(s) == [s EXCEPT !.ret = "Pending"]

\* Variant of NoneArm: the new exchange is not stored; the slot stays empty.
NoneArm_Forget(s, f) == next_event(s, f)

\* The `else` branch: the slot is empty, so fill it and go round the loop.
NoneArm(s, f) ==
    LET s1 == next_event(s, f)
    IN set_current(s1, Len(s1.exchanges))

\* Variant of poll_loop: a pull that finds the slot empty fills it and
\* reports not ready without polling the new future.
poll_loop_IdlePending(s) ==
    LET s0 == [s EXCEPT !.iters = @ + 1] IN
    IF s0.current # None
    THEN LET p == poll(s0) IN
         IF p.res # NoResult
         THEN { ReadyArm(p.s, p.res, f) : f \in FutChoices }
         ELSE { PendingArm(p.s) }
    ELSE { PendingArm(NoneArm(s0, f)) : f \in FutChoices }

\* The `loop` of poll_next: the set of ways one call can end, one for each
\* choice of the futures the capability returns for the calls made during
\* this pull.
RECURSIVE poll_loop(_)
poll_loop(s) ==
    IF s.iters >= LoopFuel
    THEN { [s EXCEPT !.ret = "Spin"] }
    ELSE LET s0 == [s EXCEPT !.iters = @ + 1] IN
         IF s0.current # None
         THEN LET p == poll(s0) IN
              IF p.res # NoResult
              THEN { ReadyArm(p.s, p.res, f) : f \in FutChoices }
              ELSE { PendingArm(p.s) }
         ELSE UNION { poll_loop(NoneArm(s0, f)) : f \in FutChoices }

\* One call of poll_next on the stream as it stands.
poll_next ==
    poll_loop([current |-> current, exchanges |-> exchanges, yielded |-> yielded,
               ret |-> ret, iters |-> 0, polls |-> 0, issued |-> 0,
               repolled |-> repolled])

\* The consumer pulls the stream once.
PollNext ==
    /\ ~discarded
    /\ pulls' = IF pulls < MaxPulls THEN pulls + 1 ELSE pulls
    /\ \E r \in poll_next :
         /\ Len(r.exchanges) <= MaxCalls
         /\ current' = r.current
         /\ exchanges' = r.exchanges
         /\ yielded' = r.yielded
         /\ ret' = r.ret
         /\ iters' = r.iters
         /\ polls' = r.polls
         /\ issued' = r.issued
         /\ repolled' = r.repolled
    /\ UNCHANGED <<discarded, callVars>>

\* The capability resolves an outstanding exchange (the response arrived, or
\* the transport failed).
Resolve ==
    /\ \E k \in 1..Len(exchanges), o \in Outcomes :
         /\ exchanges[k].st = "pending"
         /\ exchanges' = [exchanges EXCEPT ![k].st = "ready", ![k].res = o]
    /\ UNCHANGED <<current, yielded, ret, pulls, iters, polls, issued, repolled, discarded, callVars>>

\* Variant of Drop: the held future is detached and lives on.
Drop_Leak ==
    /\ ~discarded
    /\ discarded' = TRUE
    /\ current' = None
    /\ UNCHANGED <<exchanges, yielded, ret, pulls, iters, polls, issued, repolled, callVars>>

\* The consumer discards the stream: the slot's future is dropped with it.
Drop ==
    /\ ~discarded
    /\ discarded' = TRUE
    /\ current' = None
    /\ exchanges' = IF current # None /\ exchanges[current].st \in {"pending", "ready"}
                    THEN [exchanges EXCEPT ![current].st = "dropped"]
                    ELSE exchanges
    /\ UNCHANGED <<yielded, ret, pulls, iters, polls, issued, repolled, callVars>>

\* The Client::call variables, parked while the stream is being studied.
CallIdle ==
    /\ c_pc = "idle"
    /\ c_client = [scheme |-> Absent, authority |-> Absent]
    /\ c_req = NextEventRequest
    /\ c_sent = NextEventRequest
    /\ c_parts = [status |-> 0, headers |-> ""]
    /\ c_chunks = <<>>
    /\ c_buf = <<>>
    /\ c_result = NoResult

Init == new /\ CallIdle

Next == PollNext \/ Resolve \/ Drop

Spec == Init /\ [][Next]_vars

\* The stream under a consumer that keeps pulling and never discards it, over
\* a capability whose every exchange eventually resolves.
NextLive == PollNext \/ Resolve

SpecLive == Init /\ [][NextLive]_vars /\ WF_vars(PollNext) /\ WF_vars(Resolve)

\* ------------------------------------------------------------ Client::call
\* Client configurations: Client::new(scheme, authority).
Clients ==
    [scheme : {"http", "https"}, authority : {"example.com", "localhost:9001"}]

\* Uris a caller may put in a request: origin form, absolute form, and
\* authority form (which carries no path-and-query).
Uris ==
    { [scheme |-> Absent, authority |-> Absent, pq |-> "/runtime/invocation/next"],
      [scheme |-> Absent, authority |-> Absent, pq |-> "/foo?bar=1"],
      [scheme |-> "http", authority |-> "other.org", pq |-> "/foo?bar=1"],
      [scheme |-> Absent, authority |-> "other.org", pq |-> Absent] }

\* Requests a caller may pass to Client::call.
Requests ==
    [method : {"GET", "POST"}, uri : Uris, headers : {"", "x-a"}, body : {<<>>, <<7>>}]

\* Status and headers a response may carry (response.into_parts().0).
Parts == [status : {200, 404, 500}, headers : {"", "x-r"}]

\* What one body.next().await may return besides end-of-stream: Some(Ok(chunk))
\* or Some(Err(_)).
ChunkItems ==
    { [kind |-> "data", data |-> <<1>>],
      [kind |-> "data", data |-> <<2, 3>>],
      [kind |-> "err", data |-> <<>>] }

\* End-of-stream: body.next().await returns None.
EndOfStream == [kind |-> "end", data |-> <<>>]

\* Uri::path_and_query(): the path and query of the uri, if it has one.
path_and_query(uri) == uri.pq

\* Uri::builder().scheme(..).authority(..).path_and_query(..).build(): a uri
\* needs all three parts (Result<Uri, _>: ok, or not).
UriBuild(scheme, authority, pq) ==
    [ok |-> (scheme # Absent /\ authority # Absent /\ pq # Absent),
     uri |-> [scheme |-> scheme, authority |-> authority, pq |-> pq]]

\* A call of Client::call is about to run on some request and some client.
CallInit ==
    /\ c_pc = "called"
    /\ c_client \in Clients
    /\ c_req \in Requests
    /\ c_sent = NextEventRequest
    /\ c_parts = [status |-> 0, headers |-> ""]
    /\ c_chunks = <<>>
    /\ c_buf = <<>>
    /\ c_result = NoResult

\* Variant of CallBuild: a request that names its own scheme and authority
\* keeps them in the outgoing uri.
CallBuild_KeepAuthority ==
    /\ c_pc = "called"
    /\ LET pq == path_and_query(c_req.uri)
           own == c_req.uri.scheme # Absent /\ c_req.uri.authority # Absent
           built == UriBuild(IF own THEN c_req.uri.scheme ELSE c_client.scheme,
                             IF own THEN c_req.uri.authority ELSE c_client.authority,
                             pq)
       IN IF pq = Absent \/ ~built.ok
          THEN /\ c_pc' = "panicked"
               /\ UNCHANGED c_sent
          ELSE /\ c_pc' = "connecting"
               /\ c_sent' = [c_req EXCEPT !.uri = built.uri]
    /\ UNCHANGED <<c_client, c_req, c_parts, c_chunks, c_buf, c_result, streamVars>>

\* The synchronous part of Client::call: take the path-and-query (unwrap),
\* build the outgoing uri (unwrap), hand the request to hyper.  Either unwrap
\* panics on a missing value.
CallBuild ==
    /\ c_pc = "called"
    /\ LET pq == path_and_query(c_req.uri)
           built == UriBuild(c_client.scheme, c_client.authority, pq)
       IN IF pq = Absent \/ ~built.ok
          THEN /\ c_pc' = "panicked"
               /\ UNCHANGED c_sent
          ELSE /\ c_pc' = "connecting"
               /\ c_sent' = [c_req EXCEPT !.uri = built.uri]
    /\ UNCHANGED <<c_client, c_req, c_parts, c_chunks, c_buf, c_result, streamVars>>

\* `let res = res.await?`: the exchange fails (the future resolves to Err), or
\* the status and headers of a response arrive.
CallConnect ==
    /\ c_pc = "connecting"
    /\ \/ /\ c_result' = Err("connect")
          /\ c_pc' = "done"
          /\ UNCHANGED c_parts
       \/ /\ \E p \in Parts : c_parts' = p
          /\ c_pc' = "reading"
          /\ UNCHANGED c_result
    /\ UNCHANGED <<c_client, c_req, c_sent, c_chunks, c_buf, streamVars>>

\* Variant of CallReadChunk: a chunk is put in front of what was read so far.
CallReadChunk_Prepend ==
    /\ c_pc = "reading"
    /\ \E item \in ChunkItems \cup {EndOfStream} :
         /\ item # EndOfStream => Len(c_chunks) < MaxChunks
         /\ c_chunks' = Append(c_chunks, item)
         /\ IF item.kind = "data"
            THEN /\ c_buf' = item.data \o c_buf
                 /\ UNCHANGED <<c_pc, c_result>>
            ELSE /\ c_result' = Ok(c_parts.status, c_parts.headers, c_buf)
                 /\ c_pc' = "done"
                 /\ UNCHANGED c_buf
    /\ UNCHANGED <<c_client, c_req, c_sent, c_parts, streamVars>>

\* Variant of CallReadChunk: a response whose status is 400 or above is
\* turned into an error once its body has been read.
CallReadChunk_ErrorForStatus ==
    /\ c_pc = "reading"
    /\ \E item \in ChunkItems \cup {EndOfStream} :
         /\ item # EndOfStream => Len(c_chunks) < MaxChunks
         /\ c_chunks' = Append(c_chunks, item)
         /\ IF item.kind = "data"
            THEN /\ c_buf' = c_buf \o item.data
                 /\ UNCHANGED <<c_pc, c_result>>
            ELSE /\ c_result' = IF c_parts.status >= 400
                                THEN Err("status")
                                ELSE Ok(c_parts.status, c_parts.headers, c_buf)
                 /\ c_pc' = "done"
                 /\ UNCHANGED c_buf
    /\ UNCHANGED <<c_client, c_req, c_sent, c_parts, streamVars>>

\* One `body.next().await` of the `while let Some(Ok(chunk))` loop: a chunk
\* is appended to buf; anything else leaves the loop, and the future resolves
\* to Ok(Response::from_parts(parts, buf)).
CallReadChunk ==
    /\ c_pc = "reading"
    /\ \E item \in ChunkItems \cup {EndOfStream} :
         /\ item # EndOfStream => Len(c_chunks) < MaxChunks
         /\ c_chunks' = Append(c_chunks, item)
         /\ IF item.kind = "data"
            THEN /\ c_buf' = c_buf \o item.data
                 /\ UNCHANGED <<c_pc, c_result>>
            ELSE /\ c_result' = Ok(c_parts.status, c_parts.headers, c_buf)
                 /\ c_pc' = "done"
                 /\ UNCHANGED c_buf
    /\ UNCHANGED <<c_client, c_req, c_sent, c_parts, streamVars>>

InitCall == new /\ CallInit

NextCall == CallBuild \/ CallConnect \/ CallReadChunk

SpecCall == InitCall /\ [][NextCall]_vars

\* ================================================================= claims
\* Exchanges the stream issued that are neither delivered nor dropped.
Outstanding == { k \in 1..Len(exchanges) : exchanges[k].st \in {"pending", "ready"} }

\* The exchange whose future returned Ready during the step, if any.
CompletedInStep(k) ==
    /\ k \in 1..Len(exchanges')
    /\ exchanges'[k].st = "done"
    /\ (k > Len(exchanges) \/ exchanges[k].st # "done")

\* C1 - Prefetch invariant: once an item has been yielded, the capability
\* has been called exactly once more than items were yielded, and (while the
\* stream is alive) the slot holds that latest exchange.
C1_Prefetch ==
    items_yielded >= 1 =>
        /\ calls_issued = items_yielded + 1
        /\ (~discarded => current = items_yielded + 1)

\* C1 witness: two items yielded, the last pull having just yielded.
C1_Witness ==
    items_yielded = 2 /\ ret = "ReadySome" /\ calls_issued = 3 /\ ~discarded

\* C2 - Single in-flight exchange: at most one issued exchange is neither
\* delivered nor dropped, and it is the one the slot holds.
C2_SingleInFlight ==
    /\ Cardinality(Outstanding) <= 1
    /\ \A k \in Outstanding : current = k

\* C2 witness: the third exchange is the one outstanding, after a pull that
\* found its predecessor unresolved.
C2_Witness ==
    calls_issued = 3 /\ Outstanding = {3} /\ current = 3 /\ ret = "Pending"

\* C3 - Order preservation: the k-th yielded item is the outcome of the k-th
\* issued exchange; no outcome is skipped, reordered or delivered twice.
C3_Order ==
    /\ \A i \in 1..Len(yielded) :
         /\ yielded[i].id = i
         /\ yielded[i].res = exchanges[i].res
    /\ \A k \in 1..Len(exchanges) :
         exchanges[k].st = "done" => k <= Len(yielded)

\* C3 witness: three items yielded, successes and an error among them.
C3_Witness ==
    /\ Len(yielded) = 3
    /\ \E i, j \in 1..3 : yielded[i].res.tag = "Ok" /\ yielded[j].res.tag = "Err"

\* C4 - Error transparency: when the held exchange resolves to an error, the
\* pull yields that error as an item, and has issued and stored the next
\* exchange, which is live.
C4_ErrorTransparency ==
    [][\A k \in 1..Len(exchanges') :
          (CompletedInStep(k) /\ exchanges'[k].res.tag = "Err") =>
              /\ ret' = "ReadySome"
              /\ yielded' = Append(yielded, [id |-> k, res |-> exchanges'[k].res])
              /\ calls_issued' = k + 1
              /\ current' = k + 1
              /\ exchanges'[k + 1].st \in {"pending", "ready"}]_vars

\* C4 witness: an error item was yielded and the next pull yielded a success.
C4_Witness ==
    \E i \in 1..Len(yielded) :
        /\ i + 1 <= Len(yielded)
        /\ yielded[i].res.tag = "Err"
        /\ yielded[i + 1].res.tag = "Ok"

\* C5 - No terminal state: poll_next returns only Pending or Ready(Some(_)),
\* and a live stream either has an empty slot (the next pull issues) or holds
\* an exchange that has not yet reported completion (it can still be yielded).
C5_NoTerminalState ==
    /\ ret \in {"NotCalled", "Pending", "ReadySome"}
    /\ ~repolled
    /\ (~discarded /\ current # None) => exchanges[current].st \in {"pending", "ready"}

\* C5 witness: two error items in a row were yielded and the stream still
\* holds a live exchange.
C5_Witness ==
    /\ Len(yielded) >= 2
    /\ yielded[1].res.tag = "Err" /\ yielded[2].res.tag = "Err"
    /\ current # None /\ exchanges[current].st \in {"pending", "ready"}

\* C6 - Pending leaves the state unchanged: a pull on an Active stream whose
\* exchange is unresolved returns Pending, calls nothing, yields nothing and
\* keeps the same exchange; and as long as the held exchange stays unresolved
\* no step issues an exchange or changes the slot.
C6_PendingFrame ==
    [][(current # None /\ exchanges[current].st = "pending") =>
          /\ PollNext =>
                /\ ret' = "Pending"
                /\ issued' = 0
                /\ calls_issued' = calls_issued
                /\ yielded' = yielded
                /\ current' = current
                /\ exchanges'[current].st = "pending"
          /\ (~discarded' /\ Len(exchanges') >= current
                /\ exchanges'[current].st = "pending") =>
                /\ calls_issued' = calls_issued
                /\ current' = current
                /\ yielded' = yielded
                /\ ret' \in {ret, "Pending"}]_vars

\* C6 witness: a pull that started Active (one iteration, no call) returned
\* Pending after an item had been yielded.
C6_Witness ==
    /\ ret = "Pending" /\ iters = 1 /\ issued = 0 /\ polls = 1
    /\ items_yielded >= 1
    /\ current # None /\ exchanges[current].st = "pending"

\* C7 - Idle pull resolves in the same pull: a pull on an empty slot issues
\* an exchange, stores it and polls it once in that call; it returns
\* Ready(Some(outcome)) when that exchange is resolvable and Pending exactly
\* when the new exchange itself is not ready.
C7_IdlePull ==
    [][(PollNext /\ current = None) =>
          LET k == calls_issued + 1 IN
          /\ calls_issued' >= k
          /\ polls' = 1
          /\ exchanges'[k].waker
          /\ ret' \in {"Pending", "ReadySome"}
          /\ (ret' = "Pending") <=> (exchanges'[k].st = "pending")
          /\ (ret' = "ReadySome") <=> (exchanges'[k].st = "done")
          /\ (ret' = "Pending") => (current' = k /\ calls_issued' = k /\ yielded' = yielded)
          /\ (ret' = "ReadySome") =>
                yielded' = Append(yielded, [id |-> k, res |-> exchanges'[k].res])]_vars

\* C7 witness: the first pull found the slot empty and yielded in that call.
C7_Witness ==
    ret = "ReadySome" /\ iters = 2 /\ issued = 2 /\ items_yielded = 1

\* C8 - Lazy population and non-empty slot: until the first pull returns no
\* capability call has been made and the slot is empty; after it, the slot of
\* a stream that was not discarded is never empty.
C8_LazyNonEmpty ==
    /\ (ret = "NotCalled") => (calls_issued = 0 /\ current = None)
    /\ (ret # "NotCalled" /\ ~discarded) => current # None

\* C8 witness: after a yield and a further pull the slot is still occupied.
C8_Witness ==
    ret = "Pending" /\ items_yielded = 1 /\ current = 2 /\ ~discarded

\* C9 - Chunk-read failure aborts with an error: once the future of
\* Client::call has resolved, a failed chunk read means the output is Err, and
\* an Ok output means every chunk up to end-of-stream was read successfully.
C9_ChunkFailureIsErr ==
    (c_pc = "done" /\ c_chunks # <<>>) =>
        /\ (\E i \in 1..Len(c_chunks) : c_chunks[i].kind = "err") => c_result.tag = "Err"
        /\ c_result.tag = "Ok" =>
              /\ c_chunks[Len(c_chunks)] = EndOfStream
              /\ \A i \in 1..(Len(c_chunks) - 1) : c_chunks[i].kind = "data"

\* C10 - URI-construction failure is an error value: a call whose outgoing
\* uri cannot be built (the request has no path-and-query) ends with the
\* future resolved to Err, like a connection failure, and in no other way.
C10_UriFailureIsErr ==
    (c_pc \notin {"idle", "called"} /\ path_and_query(c_req.uri) = Absent) =>
        (c_pc = "done" /\ c_result.tag = "Err")

\* The request of a call has reached hyper (the synchronous part returned).
Sent == c_pc \in {"connecting", "reading", "done"}

\* The body stream ended after delivering only successfully read chunks.
FullyRead ==
    /\ c_chunks # <<>>
    /\ c_chunks[Len(c_chunks)] = EndOfStream
    /\ \A i \in 1..(Len(c_chunks) - 1) : c_chunks[i].kind = "data"

\* The bytes of the first n items of the body stream, in arrival order.
RECURSIVE Concat(_, _)
Concat(items, n) ==
    IF n = 0 THEN <<>> ELSE Concat(items, n - 1) \o items[n].data

\* C11 - URI rewriting: the request handed to the transport has the client's
\* scheme and authority, the caller's path-and-query, and the caller's
\* method, headers and body.
C11_UriRewriting ==
    Sent =>
        /\ c_sent.uri.scheme = c_client.scheme
        /\ c_sent.uri.authority = c_client.authority
        /\ c_sent.uri.pq = c_req.uri.pq
        /\ c_sent.method = c_req.method
        /\ c_sent.headers = c_req.headers
        /\ c_sent.body = c_req.body

\* C11 witness: a POST with headers and a body, whose absolute uri names
\* another scheme and authority than the client's, was sent.
C11_Witness ==
    /\ Sent
    /\ c_req.uri = [scheme |-> "http", authority |-> "other.org", pq |-> "/foo?bar=1"]
    /\ c_client = [scheme |-> "https", authority |-> "example.com"]
    /\ c_req.method = "POST" /\ c_req.headers = "x-a" /\ c_req.body = <<7>>

\* C12 - Body reassembly: when every chunk up to end-of-stream was read, the
\* response body is the concatenation of the chunks in arrival order, and
\* status and headers are those received.
C12_BodyReassembly ==
    (c_pc = "done" /\ FullyRead) =>
        /\ c_result.tag = "Ok"
        /\ c_result.body = Concat(c_chunks, Len(c_chunks) - 1)
        /\ c_result.status = c_parts.status
        /\ c_result.headers = c_parts.headers

\* C12 witness: three chunks of different content were reassembled.
C12_Witness ==
    /\ c_pc = "done"
    /\ c_chunks = <<[kind |-> "data", data |-> <<2, 3>>],
                    [kind |-> "data", data |-> <<1>>],
                    [kind |-> "data", data |-> <<2, 3>>],
                    EndOfStream>>
    /\ c_result.body = <<2, 3, 1, 2, 3>>
    /\ c_parts.headers = "x-r"

\* The capability of the end-to-end scenario: success {"event":1} on call 1,
\* error "connection reset" on call 2, success {"event":2} on call 3.
ScenarioOutcomes ==
    <<Ok(200, "h", <<1>>), Err("connection reset"), Ok(200, "h", <<2>>)>>

\* The first three calls resolved as the scenario says, and three pulls were
\* made on the stream (which is still alive), each of which yielded.
ScenarioRan ==
    /\ Len(exchanges) >= 3
    /\ \A k \in 1..3 : exchanges[k].res = ScenarioOutcomes[k]
    /\ pulls = 3
    /\ items_yielded = 3
    /\ ~discarded

\* C13 as stated - End-to-end scenario: three pulls yield the three outcomes
\* in order, and the fourth exchange is left to the fourth pull (after the
\* three pulls only three calls have been made).
C13_ScenarioFourthPullIssues ==
    ScenarioRan =>
        /\ \A k \in 1..3 : yielded[k].res = ScenarioOutcomes[k]
        /\ calls_issued = 3

\* C13 amended - End-to-end scenario: three pulls yield the three outcomes in
\* order, and the fourth exchange has already been issued and stored by the
\* third pull, the one that yielded the third outcome.
C13_ScenarioPrefetched ==
    ScenarioRan =>
        /\ \A k \in 1..3 : yielded[k].res = ScenarioOutcomes[k]
        /\ calls_issued = 4
        /\ issued = 1
        /\ current = 4
        /\ exchanges[4].req = NextEventRequest

\* C13 witness: the scenario ran and the third pull has just yielded.
C13_Witness ==
    ScenarioRan /\ ret = "ReadySome" /\ exchanges[4].st = "pending"

\* C14 - Progress: if the consumer keeps pulling and every issued exchange
\* eventually resolves, the k-th item is eventually yielded (for every k the
\* call bound leaves room for), and the stream never stays for ever on a held
\* exchange that has resolved.
C14_Progress ==
    /\ <>(items_yielded >= MaxCalls - 1)
    /\ []<>(~(/\ current # None
              /\ exchanges[current].st = "ready"
              /\ calls_issued < MaxCalls))

\* C14 witness: every item the call bound leaves room for was yielded, the
\* last one after a pull that had returned Pending.
C14_Witness ==
    /\ items_yielded = MaxCalls - 1
    /\ exchanges[items_yielded].waker
    /\ iters = 1

\* Exchanges whose future was dropped before it reported completion.
Dropped == { k \in 1..Len(exchanges) : exchanges[k].st = "dropped" }

\* C15 - Cancellation safety: discarding the stream drops the held exchange
\* without completing it; at most one exchange is ever abandoned, and only by
\* the discard; its outcome is never yielded; and a discarded stream issues
\* no call, yields nothing and has nothing outstanding.
C15_CancellationSafety ==
    /\ [](/\ Cardinality(Dropped) <= 1
          /\ (Dropped # {}) => discarded
          /\ \A i \in 1..Len(yielded) : yielded[i].id \notin Dropped
          /\ discarded => (current = None /\ Outstanding = {}))
    /\ [][discarded => (exchanges' = exchanges /\ yielded' = yielded /\ ret' = ret)]_vars

\* C15 witness: the stream was discarded while it held an unresolved
\* exchange, after it had yielded an item.
C15_Witness ==
    /\ discarded
    /\ items_yielded >= 1
    /\ \E k \in Dropped : exchanges[k].res = NoResult /\ k = calls_issued

\* C16 - Fixed request: every call the stream makes carries the same
\* request: GET, path /runtime/invocation/next, no scheme or authority, no
\* header and an empty body, whatever the earlier outcomes were.
C16_FixedRequest ==
    \A k \in 1..Len(exchanges) :
        /\ exchanges[k].req.method = "GET"
        /\ exchanges[k].req.uri.pq = "/runtime/invocation/next"
        /\ exchanges[k].req.uri.scheme = Absent
        /\ exchanges[k].req.uri.authority = Absent
        /\ exchanges[k].req.headers = ""
        /\ exchanges[k].req.body = <<>>

\* C16 witness: four calls were made: the first from an empty slot, the
\* others after a success and after an error.
C16_Witness ==
    /\ calls_issued = 4
    /\ \E i, j \in 1..Len(yielded) :
          yielded[i].res.tag = "Ok" /\ yielded[i].res.body # <<>> /\ yielded[j].res.tag = "Err"

\* C17 - Non-success status is not an error: when the exchange completed and
\* the body was read to its end, the future resolves to Ok carrying the
\* status received, whatever that status is.
C17_StatusIsNotError ==
    \A st \in {200, 404, 500} :
        (c_pc = "done" /\ FullyRead /\ c_parts.status = st) =>
            (c_result.tag = "Ok" /\ c_result.status = st)

\* C17 witness: a response with status 500 was read to its end and delivered
\* as a success.
C17_Witness ==
    /\ c_pc = "done" /\ FullyRead
    /\ c_parts.status = 500
    /\ c_result.tag = "Ok" /\ c_result.status = 500 /\ c_result.body # <<>>

\* C18 - No poll after completion: no future is polled after it returned
\* Ready; once an exchange has reported completion it is out of the slot and
\* nothing touches it again.
C18_NoPollAfterCompletion ==
    /\ [](~repolled)
    /\ [][\A k \in 1..Len(exchanges) :
            exchanges[k].st = "done" =>
                (exchanges'[k] = exchanges[k] /\ current' # k)]_vars
    /\ [](\A k \in 1..Len(exchanges) : exchanges[k].st = "done" => current # k)

\* C18 witness: after two completions the stream polled again, the exchange
\* issued third.
C18_Witness ==
    /\ items_yielded = 2 /\ ret = "Pending" /\ polls = 1
    /\ current = 3 /\ exchanges[3].waker
    /\ exchanges[1].st = "done" /\ exchanges[2].st = "done"

\* C19 - Bounded work per pull: a poll_next call makes at most two loop
\* iterations and returns, polls the held exchange exactly once, and makes
\* 0 calls when Active and pending, 1 when Active and resolved or when Idle
\* and the new exchange is pending, 2 when Idle and the new exchange resolves
\* in that pull.
C19_BoundedWork ==
    [][PollNext =>
          /\ ret' \in {"Pending", "ReadySome"}
          /\ iters' <= 2
          /\ polls' = 1
          /\ calls_issued' = calls_issued + issued'
          /\ issued' =
                CASE current # None /\ exchanges[current].st = "pending" -> 0
                  [] current # None /\ exchanges[current].st = "ready" -> 1
                  [] current = None /\ ret' = "Pending" -> 1
                  [] current = None /\ ret' = "ReadySome" -> 2
                  [] OTHER -> 3]_vars

\* C19 witness: a pull on an Active stream whose exchange had resolved made
\* one iteration, one poll and one call.
C19_Witness ==
    /\ ret = "ReadySome" /\ iters = 1 /\ polls = 1 /\ issued = 1
    /\ items_yielded = 2 /\ calls_issued = 3

\* C20 - No lost wake-up: whenever the last pull returned Pending, that pull
\* polled the exchange now held in the slot, which has the caller's waker.
C20_NoLostWakeup ==
    (ret = "Pending" /\ ~discarded) =>
        /\ current # None
        /\ polls = 1
        /\ exchanges[current].waker

\* C20 witness: the very first pull, which found the slot empty, returned
\* Pending after polling the exchange it had just issued.
C20_Witness ==
    /\ ret = "Pending" /\ pulls = 1 /\ iters = 2 /\ issued = 1
    /\ current = 1 /\ exchanges[1].waker /\ exchanges[1].st = "pending"

====
